---------------------------- MODULE Spec2Model ----------------------------
(***************************************************************************)
(* Model of generate_ppt.py: the slide-deck pipeline create_presentation    *)
(* (credential loading, deck loading, per-slide composition with image      *)
(* acquisition and placeholder fallback, timestamped save).                 *)
(*                                                                          *)
(* Strings are sequences of tokens (a token is a character or an atomic     *)
(* literal fragment); JSON values are tagged records [t, v]; a Python dict  *)
(* is a function from key names to JSON values.                             *)
(***************************************************************************)
EXTENDS Naturals, Sequences, FiniteSets, TLC

VARIABLES
    envFile,      \* the file '.env': [exists, data]
    jsonFile,     \* the file json_file: [exists, root]
    dirExists,    \* whether the directory 'generated_images' exists
    images,       \* n \in images: generated_images/slide_n.png exists
    artifacts,    \* output files in the working directory: name -> [doc, madeAt]
    clock,        \* the local wall clock, in ticks
    backend,      \* backend[n]: what the image backend answers for slide n
    pc,           \* position of the running create_presentation call
    api_key,      \* local of create_presentation
    slides_data,  \* local of create_presentation
    output_file,  \* local of create_presentation
    stampedAt,    \* the clock reading from which output_file was formatted
    prs,          \* the Presentation being built: sequence of slides
    i,            \* the loop index of enumerate(slides_data)
    out,          \* what the call has printed to standard output
    requests,     \* the generate_content requests the call has issued
    rendered      \* per root shape, the document last saved from that shape

vars == << envFile, jsonFile, dirExists, images, artifacts, clock, backend, pc,
           api_key, slides_data, output_file, stampedAt, prs, i, out, requests,
           rendered >>

----------------------------------------------------------------------------
(* Bounds of the model *)

MaxSlides == 2

MaxRunSlides == 1

MaxStrLen == 2

MaxItems == 2

MaxClock == 3

TicksPerSecond == 2

(* Program constants *)

PromptPreviewLen == 30

----------------------------------------------------------------------------
(* JSON values *)

JStr(s) == [t |-> "str", v |-> s]

JList(xs) == [t |-> "list", v |-> xs]

JNum(n) == [t |-> "num", v |-> n]

JDict(f) == [t |-> "dict", v |-> f]

NL == "\n"

Whitespace == {" ", NL}

BulletGlyph == "(U+2022)"

\* dict.get(key, default)
Get(d, key, default) == IF key \in DOMAIN d.v THEN d.v[key] ELSE default

\* Python truthiness of a string
Truthy(s) == s # << >>

RECURSIVE LStrip(_)
LStrip(s) == IF s # << >> /\ Head(s) \in Whitespace THEN LStrip(Tail(s)) ELSE s

RECURSIVE RStrip(_)
RStrip(s) ==
    IF s # << >> /\ s[Len(s)] \in Whitespace
    THEN RStrip(SubSeq(s, 1, Len(s) - 1))
    ELSE s

\* str.strip()
Strip(s) == RStrip(LStrip(s))

\* prompt[:30]
Preview(s) == SubSeq(s, 1, IF Len(s) < PromptPreviewLen THEN Len(s) ELSE PromptPreviewLen)

\* sep.join(parts) for sep = '\n'
RECURSIVE JoinNL(_)
JoinNL(parts) ==
    IF parts = << >> THEN << >>
    ELSE IF Len(parts) = 1 THEN parts[1]
    ELSE parts[1] \o << NL >> \o JoinNL(Tail(parts))

Msg(kind, n, text) == [kind |-> kind, n |-> n, text |-> text]

----------------------------------------------------------------------------
(* get_api_key *)

NoKey == [none |-> TRUE, s |-> << >>]

get_api_key(f) == IF f.exists THEN [none |-> FALSE, s |-> Strip(f.data)] ELSE NoKey

get_api_key_out(f) ==
    IF f.exists THEN << >> ELSE << Msg("Error: .env file not found.", 0, << >>) >>

\* `if api_key` / `if not api_key`
HasKey(k) == ~k.none /\ Truthy(k.s)

----------------------------------------------------------------------------
(* The deck loader of create_presentation *)

\* The `return` of line 60 left out
NotFoundFallsThrough == "setup"

NotFoundPc == "returned"

BadFormatPc == "returned"

\* data['slides'][1:] taken from a mapping
LoadSlidesSkipFirst(root) ==
    IF root.t = "dict" /\ "slides" \in DOMAIN root.v
    THEN [ok |-> TRUE,
          slides |-> IF root.v["slides"].t = "list" /\ root.v["slides"].v # << >>
                     THEN JList(Tail(root.v["slides"].v))
                     ELSE root.v["slides"]]
    ELSE IF root.t = "list"
    THEN [ok |-> TRUE, slides |-> root]
    ELSE [ok |-> FALSE, slides |-> JList(<< >>)]

\* The root shapes accepted, and the sequence taken from each
LoadSlides(root) ==
    IF root.t = "dict" /\ "slides" \in DOMAIN root.v
    THEN [ok |-> TRUE, slides |-> root.v["slides"]]
    ELSE IF root.t = "list"
    THEN [ok |-> TRUE, slides |-> root]
    ELSE [ok |-> FALSE, slides |-> JList(<< >>)]

\* Whether `for ... in enumerate(x)` can iterate x
Iterable(x) == x.t \in {"list", "str", "dict"}

KeySeq(f) ==
    CHOOSE s \in [1..Cardinality(DOMAIN f) -> DOMAIN f] :
        \A k \in DOMAIN f : \E j \in DOMAIN s : s[j] = k

\* The items enumerate(x) yields, in order
Items(x) ==
    IF x.t = "list" THEN x.v
    ELSE IF x.t = "str" THEN [k \in 1..Len(x.v) |-> JStr(<< x.v[k] >>)]
    ELSE IF x.t = "dict" THEN [k \in 1..Cardinality(DOMAIN x.v) |-> JStr(<< KeySeq(x.v)[k] >>)]
    ELSE << >>

----------------------------------------------------------------------------
(* The output file name *)

DefaultBase == "nano_banana_presentation"

NoName == [base |-> "", stamp |-> 0]

\* A format that leaves the time of day out ("%Y%m%d")
FormatTimestampDateOnly(t) == t \div (TicksPerSecond * (MaxClock + 1))

\* datetime.now().strftime("%Y%m%d_%H%M%S"): the clock reading cut to the second
FormatTimestamp(t) == t \div TicksPerSecond

OutputFile(base, t) == [base |-> base, stamp |-> FormatTimestamp(t)]

----------------------------------------------------------------------------
(* generate_image *)

Answers == {"bytes", "nobytes", "error"}

\* A second request after an answer without an image
BackendCallsRetry(prompt, answer) ==
    IF answer = "bytes" THEN << prompt >> ELSE << prompt, prompt >>

\* The generate_content calls one generate_image call makes
BackendCalls(prompt, answer) == << prompt >>

\* The return value of generate_image
ImageReturn(answer) == answer = "bytes"

\* Whether generate_image writes output_path
ImageWritten(answer) == answer = "bytes"

generate_image_out(prompt, answer) ==
    << Msg("Requesting image for prompt: ", 0, Preview(prompt)) >> \o
    ( IF answer = "bytes" THEN << >>
      ELSE IF answer = "nobytes" THEN << Msg("No image found in response.", 0, << >>) >>
      ELSE << Msg("Failed to generate image for prompt: ", 0, Preview(prompt)) >> )

----------------------------------------------------------------------------
(* The slide composer: the body of the loop of create_presentation *)

TextBox(text) == [kind |-> "textbox", file |-> 0, text |-> text]

Picture(n) == [kind |-> "picture", file |-> n, text |-> << >>]

Rectangle(text) == [kind |-> "rectangle", file |-> 0, text |-> text]

BlankSlide == [shapes |-> << >>, notes |-> << >>]

\* add_slide putting the new slide first
add_slide_front(p, s) == << s >> \o p

add_slide(p, s) == Append(p, s)

TitleText(sd) == Get(sd, "title", JStr(<< "No Title" >>)).v

\* The "\u2022 " that starts each item of a list
BulletPrefix == << BulletGlyph, " " >>

\* The items joined without the bullet prefix
ContentTextNoBullet(content) ==
    IF content.t = "list"
    THEN JoinNL([k \in 1..Len(content.v) |-> content.v[k].v])
    ELSE content.v

\* content_text, from the value of slide_data.get('content', '')
ContentText(content) ==
    IF content.t = "list"
    THEN JoinNL([k \in 1..Len(content.v) |-> BulletPrefix \o content.v[k].v])
    ELSE content.v

PromptOf(sd) == Get(sd, "image_prompt", JStr(<< >>)).v

\* img_filename, as the slide number n of generated_images/slide_n.png
ImgFilename(idx) == idx + 1

\* The request made without looking at the key
ShouldGenerateAnyKey(key, prompt) == Truthy(prompt)

\* `if api_key and img_prompt`
ShouldGenerate(key, prompt) == HasKey(key) /\ Truthy(prompt)

\* The picture placed whenever the file exists, also a file of an earlier run
UseImageIfExists(image_generated, exists) == exists

\* `if image_generated and os.path.exists(img_filename)`
UseImage(image_generated, exists) == image_generated /\ exists

PlaceholderText(prompt) ==
    IF Truthy(prompt)
    THEN << "Image Placeholder", NL, NL, "Prompt:", NL >> \o prompt
    ELSE << "No Image Prompt" >>

NotesText(prompt) == << "Image Prompt: " >> \o prompt

\* The notes written in the placeholder branch only
SlideNotesPlaceholderOnly(prompt, placed) ==
    IF placed THEN << >> ELSE << NotesText(prompt) >>

\* The notes written for a slide
SlideNotes(prompt, placed) == << NotesText(prompt) >>

Compose(sd, visual, placed) ==
    [shapes |-> << TextBox(TitleText(sd)),
                   TextBox(ContentText(Get(sd, "content", JStr(<< >>)))),
                   visual >>,
     notes |-> SlideNotes(PromptOf(sd), placed)]

----------------------------------------------------------------------------
(* create_presentation, step by step *)

Terminal == {"done", "returned", "crashed"}

GetApiKey ==
    /\ pc = "start"
    /\ api_key' = get_api_key(envFile)
    /\ out' = out \o get_api_key_out(envFile) \o
              ( IF ~HasKey(get_api_key(envFile))
                THEN << Msg("Skipping image generation due to missing API key.", 0, << >>) >>
                ELSE << >> )
    /\ pc' = "load"
    /\ UNCHANGED << envFile, jsonFile, dirExists, images, artifacts, clock, backend,
                    slides_data, output_file, stampedAt, prs, i, requests, rendered >>

LoadDeck ==
    /\ pc = "load"
    /\ IF ~jsonFile.exists
       THEN /\ out' = Append(out, Msg("Error: json_file not found.", 0, << >>))
            /\ pc' = NotFoundPc
            /\ UNCHANGED slides_data
       ELSE IF LoadSlides(jsonFile.root).ok
       THEN /\ slides_data' = LoadSlides(jsonFile.root).slides
            /\ pc' = "setup"
            /\ UNCHANGED out
       ELSE /\ out' = Append(out, Msg("Error: Unexpected JSON format in json_file", 0, << >>))
            /\ pc' = BadFormatPc
            /\ UNCHANGED slides_data
    /\ UNCHANGED << envFile, jsonFile, dirExists, images, artifacts, clock, backend,
                    api_key, output_file, stampedAt, prs, i, requests, rendered >>

\* Lines 62-75: the file name, the Presentation, the images directory, and
\* the entry into the loop (enumerate raises on a value that is not iterable)
Setup ==
    /\ pc = "setup"
    /\ output_file' = OutputFile(DefaultBase, clock)
    /\ stampedAt' = clock
    /\ prs' = << >>
    /\ dirExists' = TRUE
    /\ i' = 0
    /\ pc' = IF Iterable(slides_data) THEN "loop" ELSE "crashed"
    /\ UNCHANGED << envFile, jsonFile, images, artifacts, clock, backend, api_key,
                    slides_data, out, requests, rendered >>

ComposeSlide ==
    /\ pc = "loop"
    /\ i < Len(Items(slides_data))
    /\ LET sd == Items(slides_data)[i + 1]
       IN IF sd.t # "dict"
          THEN \* add_slide, then slide_data.get raises
               /\ prs' = add_slide(prs, BlankSlide)
               /\ pc' = "crashed"
               /\ UNCHANGED << images, out, requests, i >>
          ELSE LET prompt == PromptOf(sd)
                   n == ImgFilename(i)
                   attempt == ShouldGenerate(api_key, prompt)
                   answer == backend[n]
                   image_generated == attempt /\ ImageReturn(answer)
                   images2 == IF attempt /\ ImageWritten(answer)
                              THEN images \cup {n} ELSE images
                   placed == UseImage(image_generated, n \in images2)
                   visual == IF placed THEN Picture(n)
                             ELSE Rectangle(PlaceholderText(prompt))
               IN /\ images' = images2
                  /\ requests' = IF attempt
                                 THEN requests \o BackendCalls(prompt, answer)
                                 ELSE requests
                  /\ out' = IF attempt
                            THEN out \o << Msg("Generating image for slide ", n, << >>) >>
                                     \o generate_image_out(prompt, answer)
                            ELSE out
                  /\ prs' = add_slide(prs, Compose(sd, visual, placed))
                  /\ i' = i + 1
                  /\ pc' = "loop"
    /\ UNCHANGED << envFile, jsonFile, dirExists, artifacts, clock, backend, api_key,
                    slides_data, output_file, stampedAt, rendered >>

Save ==
    /\ pc = "loop"
    /\ i = Len(Items(slides_data))
    /\ artifacts' = [f \in DOMAIN artifacts \cup {output_file} |->
                        IF f = output_file
                        THEN [doc |-> prs, madeAt |-> stampedAt]
                        ELSE artifacts[f]]
    /\ rendered' = [rendered EXCEPT ![jsonFile.root.t] = << prs >>]
    /\ out' = Append(out, Msg("Presentation saved to ", output_file.stamp, << >>))
    /\ pc' = "done"
    /\ UNCHANGED << envFile, jsonFile, dirExists, images, clock, backend, api_key,
                    slides_data, output_file, stampedAt, prs, i, requests >>

NextRun == GetApiKey \/ LoadDeck \/ Setup \/ ComposeSlide \/ Save

----------------------------------------------------------------------------
(* The environment between calls: time passes, the entry point is run again, *)
(* the input file is rewritten in the other accepted shape                  *)

Tick ==
    /\ clock < MaxClock
    /\ clock' = clock + 1
    /\ UNCHANGED << envFile, jsonFile, dirExists, images, artifacts, backend, pc,
                    api_key, slides_data, output_file, stampedAt, prs, i, out,
                    requests, rendered >>

\* `if __name__ == "__main__": create_presentation()` in a new process
Invoke ==
    /\ pc \in Terminal
    /\ pc' = "start"
    /\ api_key' = NoKey
    /\ slides_data' = JList(<< >>)
    /\ output_file' = NoName
    /\ stampedAt' = 0
    /\ prs' = << >>
    /\ i' = 0
    /\ out' = << >>
    /\ requests' = << >>
    /\ UNCHANGED << envFile, jsonFile, dirExists, images, artifacts, clock, backend,
                    rendered >>

Wrapped(root) == JDict("slides" :> root)

RewriteInput ==
    /\ pc \in Terminal
    /\ jsonFile.exists
    /\ jsonFile' = [jsonFile EXCEPT !.root =
                       IF jsonFile.root.t = "list"
                       THEN Wrapped(jsonFile.root)
                       ELSE jsonFile.root.v["slides"]]
    /\ UNCHANGED << envFile, dirExists, images, artifacts, clock, backend, pc, api_key,
                    slides_data, output_file, stampedAt, prs, i, out, requests,
                    rendered >>

NextRuns == NextRun \/ Tick \/ Invoke

NextShapes == NextRun \/ Invoke \/ RewriteInput

----------------------------------------------------------------------------
(* Inputs *)

SlideIntro ==
    JDict(("title" :> JStr(<< "Intro" >>)) @@
          ("content" :> JList(<< JStr(<< "A" >>), JStr(<< "B" >>) >>)) @@
          ("image_prompt" :> JStr(<< "sunrise" >>)))

SlidePlain == JDict("content" :> JStr(<< "plain", " ", "text" >>))

SlideOutro ==
    JDict(("title" :> JStr(<< "Outro" >>)) @@
          ("content" :> JStr(<< >>)) @@
          ("image_prompt" :> JStr(<< >>)))

SlideMoon ==
    JDict(("title" :> JStr(<< "Mid" >>)) @@ ("image_prompt" :> JStr(<< "moon" >>)))

SampleSlides == {SlideIntro, SlidePlain, SlideOutro, SlideMoon}

Decks == UNION {[1..k -> SampleSlides] : k \in 0..MaxSlides}

RunDecks == UNION {[1..k -> SampleSlides] : k \in 0..MaxRunSlides}

WellFormedRoots == {JList(d) : d \in Decks} \cup {Wrapped(JList(d)) : d \in Decks}

OtherRoots ==
    { JNum(5), JStr(<< "a", "b" >>), JDict(<< >>),
      JDict("title" :> JStr(<< "Intro" >>)),
      Wrapped(JNum(5)), Wrapped(JStr(<< "a", "b" >>)), Wrapped(JStr(<< >>)),
      Wrapped(JDict(<< >>)), Wrapped(JDict("title" :> JStr(<< "Intro" >>))),
      JList(<< JNum(7) >>), JList(<< SlideIntro, JNum(7) >>) }

Missing == [exists |-> FALSE, root |-> JList(<< >>)]

File(root) == [exists |-> TRUE, root |-> root]

EnvFiles ==
    { [exists |-> FALSE, data |-> << >>],
      [exists |-> TRUE, data |-> << NL >>],
      [exists |-> TRUE, data |-> << "k", "e", "y", NL >>] }

NoArtifacts == [f \in {} |-> [doc |-> << >>, madeAt |-> 0]]

NothingRendered == [shape \in {"list", "dict"} |-> << >>]

InitCall ==
    /\ pc = "start"
    /\ api_key = NoKey
    /\ slides_data = JList(<< >>)
    /\ output_file = NoName
    /\ stampedAt = 0
    /\ prs = << >>
    /\ i = 0
    /\ out = << >>
    /\ requests = << >>
    /\ artifacts = NoArtifacts
    /\ rendered = NothingRendered
    /\ clock = 0

\* One call, in every environment
Init ==
    /\ InitCall
    /\ envFile \in EnvFiles
    /\ jsonFile \in {Missing} \cup {File(r) : r \in WellFormedRoots \cup OtherRoots}
    /\ dirExists \in BOOLEAN
    /\ images \in IF dirExists THEN SUBSET (1..MaxSlides) ELSE {{}}
    /\ backend \in [1..MaxSlides -> Answers]

Spec == Init /\ [][NextRun]_vars

\* Repeated calls on one deck, while time passes
InitRuns ==
    /\ InitCall
    /\ envFile \in EnvFiles
    /\ jsonFile \in {File(JList(d)) : d \in RunDecks}
    /\ dirExists = FALSE
    /\ images = {}
    /\ backend \in {[n \in 1..MaxSlides |-> IF n \in DOMAIN b THEN b[n] ELSE "nobytes"] :
                        b \in [1..MaxRunSlides -> Answers]}

SpecRuns == InitRuns /\ [][NextRuns]_vars

\* Repeated calls in one environment, the input file rewritten from one
\* accepted shape to the other between calls
InitShapes ==
    /\ InitCall
    /\ envFile \in EnvFiles
    /\ jsonFile \in {File(JList(d)) : d \in Decks}
    /\ dirExists = FALSE
    /\ images = {}
    /\ backend \in [1..MaxSlides -> Answers]

SpecShapes == InitShapes /\ [][NextShapes]_vars

\* One call on a one-slide deck, over the contents a slide can have
Alphabet == {"a", NL}

Strings == UNION {[1..k -> Alphabet] : k \in 0..MaxStrLen}

Contents ==
    {JStr(s) : s \in Strings} \cup
    {JList(xs) : xs \in UNION {[1..k -> {JStr(s) : s \in Strings}] : k \in 0..MaxItems}}

InitContent ==
    /\ InitCall
    /\ envFile = [exists |-> FALSE, data |-> << >>]
    /\ jsonFile \in {File(JList(<< JDict("content" :> c) >>)) : c \in Contents}
    /\ dirExists = FALSE
    /\ images = {}
    /\ backend = [n \in 1..MaxSlides |-> "nobytes"]

SpecContent == InitContent /\ [][NextRun]_vars

----------------------------------------------------------------------------
(* What the claims speak of *)

IsDeck(x) == x.t = "list" /\ \A k \in 1..Len(x.v) : x.v[k].t = "dict"

\* The input root is a list of slide records, bare or under the key 'slides'
WellFormedInput ==
    /\ jsonFile.exists
    /\ \/ IsDeck(jsonFile.root)
       \/ /\ jsonFile.root.t = "dict"
          /\ "slides" \in DOMAIN jsonFile.root.v
          /\ IsDeck(jsonFile.root.v["slides"])

\* The slide records of the input file, in input order
InputSlides ==
    IF jsonFile.root.t = "list" THEN jsonFile.root.v ELSE jsonFile.root.v["slides"].v

\* The credential file is missing or holds nothing but white space
CredentialAbsent == ~envFile.exists \/ \A k \in 1..Len(envFile.data) : envFile.data[k] \in Whitespace

InLoop == pc \in {"loop", "done"}

\* What happened to the image of slide k in this call
Outcome(k) ==
    IF CredentialAbsent \/ PromptOf(InputSlides[k]) = << >> THEN "skipped" ELSE backend[k]

EndsWith(text, suffix) ==
    /\ Len(suffix) <= Len(text)
    /\ SubSeq(text, Len(text) - Len(suffix) + 1, Len(text)) = suffix

Kinds(o) == {o[k].kind : k \in 1..Len(o)}

BuiltFrom(slide, sd) ==
    /\ Len(slide.shapes) = 3
    /\ slide.shapes[1] = TextBox(Get(sd, "title", JStr(<< "No Title" >>)).v)
    /\ slide.shapes[2].kind = "textbox"
    /\ "content" \notin DOMAIN sd.v => slide.shapes[2].text = << >>
    /\ ("content" \in DOMAIN sd.v /\ sd.v["content"].t = "str")
           => slide.shapes[2].text = sd.v["content"].v
    /\ slide.shapes[3].kind \in {"picture", "rectangle"}
    /\ ("image_prompt" \in DOMAIN sd.v /\ slide.notes # << >>)
           => EndsWith(slide.notes[1], sd.v["image_prompt"].v)

\* C1: for a deck of N slide records, whatever the image outcomes, the slides
\* composed so far are the first i records in input order, one slide per
\* record, and the document saved holds exactly N slides, the k-th built from
\* the k-th record.
C1_OneSlidePerRecordInOrder ==
    (WellFormedInput /\ InLoop) =>
        /\ Len(prs) = i
        /\ i <= Len(InputSlides)
        /\ \A k \in 1..Len(prs) : BuiltFrom(prs[k], InputSlides[k])
        /\ pc = "done" =>
              /\ Len(prs) = Len(InputSlides)
              /\ output_file \in DOMAIN artifacts
              /\ artifacts[output_file].doc = prs

\* A saved two-slide deck whose first image failed and whose second one came
C1_Witness ==
    /\ pc = "done"
    /\ WellFormedInput
    /\ Len(InputSlides) >= 2
    /\ Outcome(1) = "error"
    /\ Outcome(2) = "bytes"
    /\ InputSlides[1] # InputSlides[2]

\* C2: a requested image that the backend answers with binary content is
\* the slide's visual region; a request answered without binary content or
\* with an error leaves the placeholder; and in each case the call neither
\* stops nor crashes before the document is saved.
C2_ImageOrPlaceholderAndGoOn ==
    WellFormedInput =>
        /\ pc \notin {"crashed", "returned"}
        /\ pc # "done" => ENABLED NextRun
        /\ InLoop => \A k \in 1..Len(prs) :
              /\ Outcome(k) = "bytes" => prs[k].shapes[3] = Picture(k)
              /\ Outcome(k) \in {"nobytes", "error"} =>
                    /\ prs[k].shapes[3].kind = "rectangle"
                    /\ EndsWith(prs[k].shapes[3].text, PromptOf(InputSlides[k]))

\* A saved deck with one request answered without an image while an older
\* image file of that slide lies in the store, and one request answered with one
C2_Witness ==
    /\ pc = "done"
    /\ WellFormedInput
    /\ \E k \in 1..Len(prs) : Outcome(k) = "nobytes" /\ k \in images
    /\ \E k \in 1..Len(prs) : Outcome(k) = "bytes" /\ prs[k].shapes[3].kind = "picture"

\* C3: without a credential no request is ever issued, every slide shows the
\* placeholder captioned with its prompt (or "No Image Prompt" for an empty
\* prompt), whatever files the store holds, and the call does not crash
\* before the save.
C3_NoCredentialNoRequests ==
    CredentialAbsent =>
        /\ requests = << >>
        /\ WellFormedInput =>
              /\ pc \notin {"crashed", "returned"}
              /\ pc # "done" => ENABLED NextRun
              /\ pc = "done" => output_file \in DOMAIN artifacts
              /\ InLoop => \A k \in 1..Len(prs) :
                    LET prompt == PromptOf(InputSlides[k])
                        visual == prs[k].shapes[3]
                    IN /\ visual.kind = "rectangle"
                       /\ prompt = << >> => visual.text = << "No Image Prompt" >>
                       /\ prompt # << >> => EndsWith(visual.text, prompt)

\* A saved deck without credential, with image files in the store, a slide
\* with a prompt and a slide without
C3_Witness ==
    /\ pc = "done"
    /\ CredentialAbsent
    /\ WellFormedInput
    /\ images = 1..MaxSlides
    /\ \E k \in 1..Len(prs) : PromptOf(InputSlides[k]) # << >>
    /\ \E k \in 1..Len(prs) : PromptOf(InputSlides[k]) = << >>

AcceptedShape(root) ==
    \/ root.t = "list"
    \/ /\ root.t = "dict"
       /\ "slides" \in DOMAIN root.v
       /\ root.v["slides"].t = "list"

FormatDiagnostic == "Error: Unexpected JSON format in json_file"

NotFoundDiagnostic == "Error: json_file not found."

CredentialDiagnostics ==
    {"Error: .env file not found.", "Skipping image generation due to missing API key."}

\* C4: for an input root that is neither a list nor a mapping whose 'slides'
\* value is a list, nothing is composed, requested or saved, and the call
\* ends having reported the format diagnostic.
C4_OtherRootsHaltWithFormatError ==
    (jsonFile.exists /\ ~AcceptedShape(jsonFile.root)) =>
        /\ prs = << >>
        /\ requests = << >>
        /\ DOMAIN artifacts = {}
        /\ pc \in Terminal => (pc = "returned" /\ FormatDiagnostic \in Kinds(out))

RECURSIVE NonEmptyPrompts(_)
\* The non-empty prompts of the first n input records, in order
NonEmptyPrompts(n) ==
    IF n = 0 THEN << >>
    ELSE NonEmptyPrompts(n - 1) \o
         ( IF PromptOf(InputSlides[n]) = << >> THEN << >>
           ELSE << PromptOf(InputSlides[n]) >> )

\* C5: a request is issued for slide k iff the token is present and the
\* slide's prompt is non-empty, and then exactly once: the requests issued
\* after i slides are the non-empty prompts of the first i records, in order,
\* when the token is present, and none otherwise.
C5_OneRequestPerPromptedSlide ==
    /\ pc \in {"start", "load", "setup", "returned"} => requests = << >>
    /\ (WellFormedInput /\ InLoop) =>
          requests = IF CredentialAbsent THEN << >> ELSE NonEmptyPrompts(i)

\* A saved two-slide deck, token present, one prompt empty and the other
\* answered with an error: one request
C5_Witness ==
    /\ pc = "done"
    /\ WellFormedInput
    /\ ~CredentialAbsent
    /\ Len(InputSlides) = 2
    /\ \E k \in 1..2 : Outcome(k) = "error"
    /\ \E k \in 1..2 : PromptOf(InputSlides[k]) = << >>
    /\ Len(requests) = 1

\* C6: every composed slide has speaker notes, and their text contains the
\* slide's prompt text, whether the image was acquired, not produced, failed
\* or never requested.
C6_NotesAlwaysCarryPrompt ==
    (WellFormedInput /\ InLoop) => \A k \in 1..Len(prs) :
        /\ Len(prs[k].notes) = 1
        /\ EndsWith(prs[k].notes[1], PromptOf(InputSlides[k]))
        /\ Len(prs[k].notes[1]) > Len(PromptOf(InputSlides[k]))

\* A saved deck with an acquired image on one slide and a failed request on
\* the other
C6_Witness ==
    /\ pc = "done"
    /\ WellFormedInput
    /\ \E k \in 1..Len(prs) : Outcome(k) = "bytes" /\ prs[k].shapes[3].kind = "picture"
    /\ \E k \in 1..Len(prs) : Outcome(k) = "error" /\ prs[k].notes # << >>

\* C8 as claimed: with the input file missing, no step creates the images
\* directory, issues a request, composes a slide or saves, and nothing but
\* the not-found diagnostic is printed.
C8_MissingInputPrintsOnlyNotFound ==
    [][ ~jsonFile.exists =>
          /\ dirExists' = dirExists
          /\ images' = images
          /\ requests' = << >>
          /\ prs' = << >>
          /\ DOMAIN artifacts' = {}
          /\ pc' # "done"
          /\ Kinds(out') \subseteq {NotFoundDiagnostic} ]_vars

\* C8 amended: with the input file missing, no step creates the images
\* directory, issues a request, composes a slide or saves; the call returns
\* having printed the not-found diagnostic, and prints nothing else but the
\* two credential diagnostics, and those only when the credential is absent.
C8_MissingInputHaltsBeforeSlideWork ==
    [][ ~jsonFile.exists =>
          /\ dirExists' = dirExists
          /\ images' = images
          /\ requests' = << >>
          /\ prs' = << >>
          /\ DOMAIN artifacts' = {}
          /\ pc' \in {"load", "returned"}
          /\ pc' = "returned" => NotFoundDiagnostic \in Kinds(out')
          /\ Kinds(out') \subseteq
                {NotFoundDiagnostic} \cup
                (IF CredentialAbsent THEN CredentialDiagnostics ELSE {}) ]_vars

\* The call has returned on a missing input file, with a token, and there is
\* no images directory
C8_Witness ==
    /\ pc = "returned"
    /\ ~jsonFile.exists
    /\ ~CredentialAbsent
    /\ ~dirExists
    /\ Kinds(out) = {NotFoundDiagnostic}

\* The second a clock reading falls in
Second(t) == t \div TicksPerSecond

\* C7 as claimed: the file name a call has computed is never the name of
\* an artifact an earlier call saved, so no save overwrites one.
C7_NamesNeverCollide == pc = "loop" => output_file \notin DOMAIN artifacts

\* C7 amended: the file name a call has computed equals the name of an
\* artifact saved by an earlier call exactly when both names were stamped
\* within the same second of the local clock; calls stamped in different
\* seconds get different names.
C7_NamesCollideOnlyWithinOneSecond ==
    pc = "loop" => \A f \in DOMAIN artifacts :
        (f = output_file) <=> (Second(artifacts[f].madeAt) = Second(stampedAt))

\* A second call has saved beside the artifact of a call of an earlier second
C7_Witness ==
    /\ pc = "done"
    /\ Cardinality(DOMAIN artifacts) = 2
    /\ \E f \in DOMAIN artifacts : Second(artifacts[f].madeAt) # Second(stampedAt)

\* C9: for one sequence of slide records, one credential and one backend
\* behaviour, the document saved from the root {"slides": S} and the one
\* saved from the bare root S are the same: same slides, same order, same
\* title, content, visual region and notes.
C9_BothShapesRenderAlike ==
    (rendered["list"] # << >> /\ rendered["dict"] # << >>) =>
        rendered["list"] = rendered["dict"]

\* Both shapes of a deck of two different slides have been rendered, with an
\* acquired image on the first slide and a placeholder on the second
C9_Witness ==
    /\ rendered["list"] # << >>
    /\ rendered["dict"] # << >>
    /\ Len(rendered["dict"][1]) >= 2
    /\ rendered["dict"][1][1].shapes[3].kind = "picture"
    /\ rendered["dict"][1][2].shapes[3].kind = "rectangle"
    /\ rendered["dict"][1][1].shapes[1] # rendered["dict"][1][2].shapes[1]

----------------------------------------------------------------------------
(* Content normalization *)

RECURSIVE SplitNL(_)
\* The lines of a text: a line break ends one line and starts the next
SplitNL(s) ==
    IF s = << >> THEN << << >> >>
    ELSE IF Head(s) = NL THEN << << >> >> \o SplitNL(Tail(s))
    ELSE LET rest == SplitNL(Tail(s))
         IN << << Head(s) >> \o rest[1] >> \o Tail(rest)

\* The lines shown for a text; the empty text shows none
Lines(text) == IF text = << >> THEN << >> ELSE SplitNL(text)

RECURSIVE Flatten(_)
Flatten(seqs) == IF seqs = << >> THEN << >> ELSE Head(seqs) \o Flatten(Tail(seqs))

\* The content of the one slide of the input
InputContent == jsonFile.root.v[1].v["content"]

ContentRegion == prs[1].shapes[2].text

NoLineBreak(s) == \A k \in 1..Len(s) : s[k] # NL

\* C10 as claimed: a list of k strings is rendered as exactly k lines, the
\* j-th being the bullet prefix followed by the j-th element; a plain string
\* is rendered unchanged.
C10_ListOfKGivesKLines ==
    pc = "done" =>
        /\ InputContent.t = "list" =>
              Lines(ContentRegion) =
                  [j \in 1..Len(InputContent.v) |-> BulletPrefix \o InputContent.v[j].v]
        /\ InputContent.t = "str" => ContentRegion = InputContent.v

\* C10 amended: a list of k strings is rendered as the lines of its
\* bullet-prefixed elements, in list order: exactly k lines, the j-th being
\* the bullet prefix followed by the j-th element, when no element contains
\* a line break; an element with line breaks takes one line per piece, the
\* first alone carrying the prefix. A plain string is rendered unchanged.
C10_ListGivesBulletedLinesOfElements ==
    pc = "done" =>
        /\ InputContent.t = "list" =>
              /\ Lines(ContentRegion) =
                    Flatten([j \in 1..Len(InputContent.v) |->
                                SplitNL(<< BulletGlyph, " " >> \o InputContent.v[j].v)])
              /\ (\A j \in 1..Len(InputContent.v) : NoLineBreak(InputContent.v[j].v)) =>
                    Lines(ContentRegion) =
                        [j \in 1..Len(InputContent.v) |->
                            << BulletGlyph, " " >> \o InputContent.v[j].v]
        /\ InputContent.t = "str" => ContentRegion = InputContent.v

\* A list of two elements without line breaks has been rendered
C10_Witness ==
    /\ pc = "done"
    /\ InputContent.t = "list"
    /\ Len(InputContent.v) = 2
    /\ \A j \in 1..2 : InputContent.v[j].v # << >> /\ NoLineBreak(InputContent.v[j].v)
    /\ Len(Lines(ContentRegion)) = 2

============================================================================
